---- MODULE Spec2Model ----
(***************************************************************************)
(* Model of tracker.py (Steam Status Monitor): SteamAPIClient, Logger and  *)
(* SteamMonitor.  One tracked account; setup_user builds the stored        *)
(* UserProfile, start_monitoring runs the poll loop, _check_for_changes    *)
(* diffs each fetched player summary against the stored profile and logs   *)
(* one line per detected change.                                           *)
(***************************************************************************)
EXTENDS Integers, Sequences, FiniteSets, TLC

VARIABLES
    profile,      \* SteamMonitor.profile : UserProfile, or NoProfile
    running,      \* SteamMonitor.running
    pc,           \* position of the main thread
    now,          \* wall clock in whole seconds (datetime.now(), time.time())
    emitted,      \* lines reported by the most recent step (Logger.log calls, and
                  \* the console reports of setup_user and _make_request)
    previous,     \* the stored profile as it was when the most recent step began
    current_data, \* what the most recent get_player_summary returned
    outcome,      \* how the most recent fetch ended
    polls,        \* number of _check_for_changes calls so far
    discord_webhook,   \* Config.discord_webhook
    http_requests,     \* the HTTP requests sent by the most recent step
    last_request_time, \* SteamAPIClient.last_request_time
    cycle_start,       \* the time the most recent loop iteration began
    interrupted,  \* a KeyboardInterrupt was delivered while the loop was running
    pending,      \* what is left to do of the running _check_for_changes call
    json_log,     \* the events in Config.json_log (steam_events.json)
    logged        \* every event handed to Logger.log, oldest first

vars == <<profile, running, pc, now, emitted, previous, current_data, outcome, polls,
          discord_webhook, http_requests, last_request_time, cycle_start,
          interrupted, pending, json_log, logged>>

----------------------------------------------------------------------------
(* Bounds *)

MaxPolls == 2            \* poll cycles explored
StartDelays == {0, 125}  \* seconds the operator waits at "Press Enter"
\* waits that put a running session at each boundary of the duration rendering
DurationDelays == {0, 1, 59, 60, 61, 125, 3599, 3600, 3601, 3660, 3661, 7200, 7325, 90061}

(* Program constants *)

CheckInterval == 20      \* Config.check_interval
RateLimitWait == 60      \* time.sleep(60) on HTTP 429
MinRequestInterval == 1  \* SteamAPIClient.min_request_interval
JsonCap == 500           \* "Keep last 500 events"

----------------------------------------------------------------------------
(* Python values *)

None == "None"                     \* the absent value; no input string equals it
Truthy(v) == v \notin {None, ""}   \* bool(v) for an Optional[str]
NoTime == << >>                    \* game_start_time = None
At(t) == <<t>>                     \* game_start_time = a datetime
NoProfile == [none |-> TRUE]       \* SteamMonitor.profile = None
NoData == << >>                    \* get_player_summary returned None

\* dict.get(key, default)
Get(d, k, default) == IF k \in DOMAIN d THEN d[k] ELSE default

\* a player summary as the API returns it: a dict holding only the keys present
Dict(r) ==
    [k \in {"steamid"} \cup
           {k \in DOMAIN r : IF k = "personastate" THEN r[k] # -1 ELSE r[k] # None}
       |-> IF k = "steamid" THEN "76561" ELSE r[k]]

\* inputs of the full program run: presence, activity, nickname and country vary
Snapshots ==
    { Dict(r) : r \in [personaname : {None, "n1"}, realname : {None},
                       loccountrycode : {None, "TR"}, profileurl : {None},
                       avatarfull : {None},
                       personastate : {-1, 1, 7, 9},
                       gameextrainfo : {None, "", "A", "B"}] }

\* inputs of the statement-by-statement run: presence, activity, nickname vary
StepSnapshots ==
    { Dict(r) : r \in [personaname : {"n1", "n2"}, realname : {None},
                       loccountrycode : {None}, profileurl : {None},
                       avatarfull : {None},
                       personastate : {-1, 1},
                       gameextrainfo : {None, "A"}] }

\* inputs where presence, activity and each metadata field take two values
AllSnapshots ==
    { Dict(r) : r \in [personaname : {"n1", "n2"}, realname : {None, "a"},
                       loccountrycode : {None, "TR"}, profileurl : {None, "a"},
                       avatarfull : {None, "a"},
                       personastate : {0, 1},
                       gameextrainfo : {None, "A"}] }

\* inputs of the metadata diff: every tracked field absent, empty or set
\* inputs of the duration rendering: only the activity varies
DurationSnapshots ==
    { Dict(r) : r \in [personaname : {"n1"}, realname : {None},
                       loccountrycode : {None}, profileurl : {None},
                       avatarfull : {None},
                       personastate : {1},
                       gameextrainfo : {None, "A"}] }

MetaSnapshots ==
    { Dict(r) : r \in [personaname : {None, "", "a"}, realname : {None, "", "a"},
                       loccountrycode : {None, "", "a"}, profileurl : {None, "", "a"},
                       avatarfull : {None, "", "a"},
                       personastate : {1},
                       gameextrainfo : {None}] }

----------------------------------------------------------------------------
(* Style *)

STATUS_TEXT ==
    [c \in 0..6 |-> CASE c = 0 -> "Offline" [] c = 1 -> "Online" [] c = 2 -> "Busy"
                      [] c = 3 -> "Away" [] c = 4 -> "Snooze"
                      [] c = 5 -> "Looking to trade" [] c = 6 -> "Looking to play"]

\* Style.STATUS_TEXT.get(code, 'Unknown')
StatusText(code) == IF code \in DOMAIN STATUS_TEXT THEN STATUS_TEXT[code] ELSE "Unknown"

----------------------------------------------------------------------------
(* SteamAPIClient *)

\* the ways _make_request ends without a usable body: an exception or error
\* status, or HTTP 429
Failures == {"error", "ratelimited"}

\* what the API can answer when the players it would list are drawn from S
Responses(S) ==
    {[o |-> "ok", players |-> <<d>>] : d \in S}
        \cup {[o |-> "notfound", players |-> << >>]}
        \cup {[o |-> f, players |-> << >>] : f \in Failures}

\* _make_request: the console line of a failed request
RequestLines(resp) ==
    CASE resp.o = "ratelimited" -> <<[kind |-> "rate_limited"]>>
      [] resp.o = "error"       -> <<[kind |-> "api_error"]>>
      [] OTHER                  -> << >>

\* _make_request lines 80-83: seconds slept before a request at time t so that
\* requests are min_request_interval apart
Throttle(t, last) ==
    IF t - last < MinRequestInterval THEN MinRequestInterval - (t - last) ELSE 0

\* SteamAPIClient.__init__: last_request_time = 0, the epoch, which lies before
\* the start of the run (time 0 of the model's clock)
LongAgo == 0 - MinRequestInterval

\* the endpoint get_player_summary requests
PlayerSummaries == "ISteamUser/GetPlayerSummaries/v2"

\* _make_request: seconds spent waiting after the request (HTTP 429)
RequestWait(resp) == IF resp.o = "ratelimited" THEN RateLimitWait ELSE 0

\* get_player_summary: players[0], or None for an empty list or a failed request
GetPlayerSummary(resp) ==
    IF resp.o \in Failures THEN NoData
    ELSE IF resp.players # << >> THEN resp.players[1] ELSE NoData

----------------------------------------------------------------------------
(* SteamMonitor._format_duration *)

\* FormatDuration where line 340 lacks "and not parts": seconds always shown
FormatDuration_AllUnits(delta) ==
    LET hours   == delta \div 3600
        minutes == (delta % 3600) \div 60
        seconds == (delta % 3600) % 60
        h == IF hours # 0 THEN ToString(hours) \o "h" ELSE ""
        m == IF minutes # 0 THEN ToString(minutes) \o "m" ELSE ""
        s == IF seconds # 0 THEN ToString(seconds) \o "s" ELSE ""
        hm == IF h # "" /\ m # "" THEN h \o " " \o m ELSE h \o m
    IN  IF hm = "" /\ s = "" THEN "0s"
        ELSE IF hm # "" /\ s # "" THEN hm \o " " \o s
        ELSE hm \o s

FormatDuration(delta) ==
    LET total_seconds == delta
        hours     == total_seconds \div 3600
        remainder == total_seconds % 3600
        minutes   == remainder \div 60
        seconds   == remainder % 60
        h == IF hours # 0 THEN <<ToString(hours) \o "h">> ELSE << >>
        m == IF minutes # 0 THEN <<ToString(minutes) \o "m">> ELSE << >>
        s == IF seconds # 0 /\ h \o m = << >> THEN <<ToString(seconds) \o "s">> ELSE << >>
        parts == h \o m \o s
    IN  IF parts = << >> THEN "0s"
        ELSE IF Len(parts) = 1 THEN parts[1]
        ELSE parts[1] \o " " \o parts[2]

----------------------------------------------------------------------------
(* Log lines.  Each carries the nickname the message was formatted with. *)

StatusLine(name, old, new)   == [kind |-> "status", name |-> name, old |-> old, new |-> new]
StoppedLine(name, game, dur) == [kind |-> "stopped", name |-> name, game |-> game, duration |-> dur]
StartedLine(name, game)      == [kind |-> "started", name |-> name, game |-> game]
ChangedLine(name, field, old, new) ==
    [kind |-> "changed", name |-> name, field |-> field, old |-> old, new |-> new]
InitializedLine(name, status, game) ==
    [kind |-> "initialized", name |-> name, status |-> status, game |-> game]
SetupFailedLine              == [kind |-> "setup_failed"]
MonitorStartedLine(name)     == [kind |-> "monitor_started", name |-> name]
MonitorStoppedLine           == [kind |-> "monitor_stopped"]

----------------------------------------------------------------------------
(* SteamMonitor.setup_user: the UserProfile built from the first summary *)

\* the profile without lines 207-208: no start time for a running game
MakeProfile_NoStart(data, t) ==
    LET game == Get(data, "gameextrainfo", None)
    IN  [steamid         |-> "76561",
         personaname     |-> Get(data, "personaname", "Unknown"),
         realname        |-> Get(data, "realname", None),
         country         |-> Get(data, "loccountrycode", None),
         avatar          |-> Get(data, "avatarfull", None),
         profile_url     |-> Get(data, "profileurl", None),
         persona_state   |-> Get(data, "personastate", 0),
         game_name       |-> game,
         game_start_time |-> NoTime]

MakeProfile(data, t) ==
    LET game == Get(data, "gameextrainfo", None)
    IN  [steamid         |-> "76561",
         personaname     |-> Get(data, "personaname", "Unknown"),
         realname        |-> Get(data, "realname", None),
         country         |-> Get(data, "loccountrycode", None),
         avatar          |-> Get(data, "avatarfull", None),
         profile_url     |-> Get(data, "profileurl", None),
         persona_state   |-> Get(data, "personastate", 0),
         game_name       |-> game,
         game_start_time |-> IF Truthy(game) THEN At(t) ELSE NoTime]

----------------------------------------------------------------------------
(* SteamMonitor._check_for_changes, rule by rule.  A rule maps the pair    *)
(* [p: stored profile, ev: lines logged so far in this call] to the pair   *)
(* after the rule.                                                         *)

\* CheckStatus without line 270: the change is logged but never stored
CheckStatus_NoStore(c, data) ==
    LET new_status == Get(data, "personastate", 0)
    IN  IF new_status # c.p.persona_state
        THEN [p  |-> c.p,
              ev |-> Append(c.ev, StatusLine(c.p.personaname,
                                             StatusText(c.p.persona_state),
                                             StatusText(new_status)))]
        ELSE c

\* lines 260-270
CheckStatus(c, data) ==
    LET new_status == Get(data, "personastate", 0)
    IN  IF new_status # c.p.persona_state
        THEN [p  |-> [c.p EXCEPT !.persona_state = new_status],
              ev |-> Append(c.ev, StatusLine(c.p.personaname,
                                             StatusText(c.p.persona_state),
                                             StatusText(new_status)))]
        ELSE c

\* a stop that also clears the stored start time
GameStopped_ClearStart(c, new_game, current_time) ==
    LET duration == IF c.p.game_start_time # NoTime
                    THEN FormatDuration(current_time - c.p.game_start_time[1])
                    ELSE "Unknown"
    IN  [p  |-> [c.p EXCEPT !.game_name = new_game, !.game_start_time = NoTime],
         ev |-> Append(c.ev, StoppedLine(c.p.personaname, c.p.game_name, duration))]

\* the session line and start time of a stop (lines 276-283)
GameStopped(c, new_game, current_time) ==
    LET duration == IF c.p.game_start_time # NoTime
                    THEN FormatDuration(current_time - c.p.game_start_time[1])
                    ELSE "Unknown"
    IN  [p  |-> [c.p EXCEPT !.game_name = new_game],
         ev |-> Append(c.ev, StoppedLine(c.p.personaname, c.p.game_name, duration))]

\* the session line and start time of a start (lines 286-289)
GameStarted(c, new_game, current_time) ==
    [p  |-> [c.p EXCEPT !.game_name = new_game, !.game_start_time = At(current_time)],
     ev |-> Append(c.ev, StartedLine(c.p.personaname, new_game))]

\* CheckGame where a switch between two games keeps the running start time
CheckGame_KeepStartOnSwitch(c, data, current_time) ==
    LET new_game == Get(data, "gameextrainfo", None)
        old_game == c.p.game_name
        started  == GameStarted(c, new_game, current_time)
    IN  IF new_game # old_game
        THEN IF Truthy(old_game) /\ ~Truthy(new_game)
             THEN GameStopped(c, new_game, current_time)
             ELSE IF Truthy(new_game)
             THEN IF Truthy(old_game)
                  THEN [started EXCEPT !.p.game_start_time = c.p.game_start_time]
                  ELSE started
             ELSE [p |-> [c.p EXCEPT !.game_name = new_game], ev |-> c.ev]
        ELSE c

\* CheckGame where line 275 tests "new_game is None" instead of "not new_game"
CheckGame_StopOnlyOnNone(c, data, current_time) ==
    LET new_game == Get(data, "gameextrainfo", None)
        old_game == c.p.game_name
    IN  IF new_game # old_game
        THEN IF Truthy(old_game) /\ new_game = None
             THEN GameStopped(c, new_game, current_time)
             ELSE IF Truthy(new_game)
             THEN GameStarted(c, new_game, current_time)
             ELSE [p |-> [c.p EXCEPT !.game_name = new_game], ev |-> c.ev]
        ELSE c

\* CheckGame where line 289 records the start only if none is recorded yet
CheckGame_StartOnlyIfUnset(c, data, current_time) ==
    LET new_game == Get(data, "gameextrainfo", None)
        old_game == c.p.game_name
        started  == GameStarted(c, new_game, current_time)
    IN  IF new_game # old_game
        THEN IF Truthy(old_game) /\ ~Truthy(new_game)
             THEN GameStopped(c, new_game, current_time)
             ELSE IF Truthy(new_game)
             THEN IF c.p.game_start_time # NoTime
                  THEN [started EXCEPT !.p.game_start_time = c.p.game_start_time]
                  ELSE started
             ELSE [p |-> [c.p EXCEPT !.game_name = new_game], ev |-> c.ev]
        ELSE c

\* lines 272-291
CheckGame(c, data, current_time) ==
    LET new_game == Get(data, "gameextrainfo", None)
        old_game == c.p.game_name
    IN  IF new_game # old_game
        THEN IF Truthy(old_game) /\ ~Truthy(new_game)
             THEN GameStopped(c, new_game, current_time)
             ELSE IF Truthy(new_game)
             THEN GameStarted(c, new_game, current_time)
             ELSE [p |-> [c.p EXCEPT !.game_name = new_game], ev |-> c.ev]
        ELSE c

\* lines 298-304: (api_field, display_name, profile attribute), in loop order
Changes ==
    << <<"personaname", "nickname", "personaname">>,
       <<"realname", "real name", "realname">>,
       <<"loccountrycode", "country", "country">>,
       <<"profileurl", "profile URL", "profile_url">>,
       <<"avatarfull", "avatar", "avatar">> >>

\* Norm without the normalisation: "" and None stay different values
Norm_Identity(v) == v

\* lines 310-311: "Normalize empty values"
Norm(v) == IF v \notin {"", None} THEN v ELSE None

\* lines 306-327, one iteration of the loop; old values were read from the
\* profile before the loop started (old), the message uses the current nickname
CheckField(c, old, data, i) ==
    LET api_field == Changes[i][1]
        attr      == Changes[i][3]
        old_norm  == Norm(old[attr])
        new_norm  == Norm(Get(data, api_field, None))
    IN  IF old_norm # new_norm
        THEN [p  |-> [c.p EXCEPT ![attr] = new_norm],
              ev |-> Append(c.ev, ChangedLine(c.p.personaname, Changes[i][2],
                                              old_norm, new_norm))]
        ELSE c

\* the loop of lines 306-327 leaving at the first field that changed
RECURSIVE CheckFieldsFrom_Break(_, _, _, _)
CheckFieldsFrom_Break(c, old, data, i) ==
    IF i > Len(Changes) THEN c
    ELSE LET d == CheckField(c, old, data, i)
         IN  IF d # c THEN d ELSE CheckFieldsFrom_Break(d, old, data, i + 1)

RECURSIVE CheckFieldsFrom(_, _, _, _)
CheckFieldsFrom(c, old, data, i) ==
    IF i > Len(Changes) THEN c
    ELSE CheckFieldsFrom(CheckField(c, old, data, i), old, data, i + 1)

\* lines 296-327
CheckProfileChanges(c, data) == CheckFieldsFrom(c, c.p, data, 1)

\* the diff with the metadata rule run before presence and session
Diff_MetadataFirst(p, data, current_time) ==
    CheckGame(CheckStatus(CheckProfileChanges([p |-> p, ev |-> << >>], data), data),
              data, current_time)

\* lines 258-294: the diff of one fetched summary against the stored profile
Diff(p, data, current_time) ==
    CheckProfileChanges(
        CheckGame(CheckStatus([p |-> p, ev |-> << >>], data), data, current_time),
        data)

----------------------------------------------------------------------------
(* Logger *)

\* the model leaves the content of the JSON log out of the state where the
\* run is what is examined; the lines written are then in emitted
Untracked == <<[kind |-> "untracked"]>>

\* the dict Logger.log hands to _write_json (lines 140-143)
JsonEvent(line, t) == [timestamp |-> t, message |-> line]

\* _write_json lines 146-152: the events read back; read is "ok", or "raised"
\* when json.load raised (a bare except: any exception, KeyboardInterrupt too)
ReadEvents(file, read) == IF read = "ok" THEN file ELSE << >>

\* _write_json lines 154-161
WriteJson(file, event, read) ==
    LET events == Append(ReadEvents(file, read), event)
    IN  IF Len(events) > JsonCap
        THEN SubSeq(events, Len(events) - JsonCap + 1, Len(events))
        ELSE events

\* Logger.log: the JSON log after one call
Log(file, line, t, read) ==
    IF file = Untracked THEN file ELSE WriteJson(file, JsonEvent(line, t), read)

\* the JSON log after Logger.log was called for each line in turn
RECURSIVE WriteAll(_, _, _)
WriteAll(file, lines, t) ==
    IF lines = << >> THEN file
    ELSE WriteAll(Log(file, Head(lines), t, "ok"), Tail(lines), t)

----------------------------------------------------------------------------
(* Operations *)

\* the state after SteamMonitor(config)
Constructed(webhook, file) ==
    /\ profile = NoProfile
    /\ running = FALSE
    /\ pc = "setup"
    /\ now = 0
    /\ emitted = << >>
    /\ previous = NoProfile
    /\ current_data = NoData
    /\ outcome = "none"
    /\ polls = 0
    /\ discord_webhook = webhook
    /\ http_requests = << >>
    /\ last_request_time = LongAgo
    /\ cycle_start = 0
    /\ interrupted = FALSE
    /\ pending = << >>
    /\ json_log = file
    /\ logged = file

\* no webhook was entered at main's prompt
Init == Constructed(None, Untracked)

\* SetupLines that also logs the running game as a session start
SetupLines_WithSession(p) ==
    <<InitializedLine(p.personaname, StatusText(p.persona_state),
                      IF Truthy(p.game_name) THEN p.game_name ELSE None)>>
        \o (IF Truthy(p.game_name) THEN <<StartedLine(p.personaname, p.game_name)>>
            ELSE << >>)

\* setup_user lines 210-218: the initial status shown on the console
SetupLines(p) ==
    <<InitializedLine(p.personaname, StatusText(p.persona_state),
                      IF Truthy(p.game_name) THEN p.game_name ELSE None)>>

\* setup_user with a numeric identifier: fetch, build the profile, show it
SetupUser(S) ==
    /\ pc = "setup"
    /\ \E resp \in Responses(S) :
         LET player_data == GetPlayerSummary(resp)
             sent == now + Throttle(now, last_request_time)
         IN  /\ outcome' = resp.o
             /\ current_data' = player_data
             /\ last_request_time' = sent
             /\ now' = sent + RequestWait(resp)
             /\ IF player_data = NoData
                THEN /\ pc' = "exit"
                     /\ profile' = profile
                     /\ emitted' = RequestLines(resp) \o <<SetupFailedLine>>
                ELSE /\ pc' = "ready"
                     /\ profile' = MakeProfile(player_data, now')
                     /\ emitted' = SetupLines(profile')
    /\ http_requests' = <<PlayerSummaries>>
    /\ previous' = profile
    /\ UNCHANGED <<running, polls, discord_webhook, cycle_start, interrupted, pending,
                   json_log, logged>>

\* start_monitoring up to the loop: the operator pressed Enter after d seconds
StartMonitoring(D) ==
    /\ pc = "ready"
    /\ profile # NoProfile
    /\ \E d \in D : now' = now + d
    /\ running' = TRUE
    /\ emitted' = <<MonitorStartedLine(profile.personaname)>>
    /\ json_log' = WriteAll(json_log, emitted', now')
    /\ http_requests' = << >>
    /\ previous' = profile
    /\ pc' = "poll"
    /\ UNCHANGED <<profile, current_data, outcome, polls, discord_webhook,
                   last_request_time, cycle_start, interrupted, pending, logged>>

\* PollResult where a fetch that returned nothing marks the account offline
PollResult_Offline(p, fetched, current_time) ==
    IF fetched = NoData THEN [p |-> [p EXCEPT !.persona_state = 0], ev |-> << >>]
    ELSE Diff(p, fetched, current_time)

\* PollResult without the early return of lines 255-256: an empty summary is diffed
PollResult_Fallthrough(p, fetched, current_time) ==
    Diff(p, fetched, current_time)

\* _check_for_changes after the fetch: lines 255-294
PollResult(p, fetched, current_time) ==
    IF fetched = NoData THEN [p |-> p, ev |-> << >>]
    ELSE Diff(p, fetched, current_time)

\* one call of _check_for_changes from the loop
CheckForChanges(S) ==
    /\ pc = "poll"
    /\ running
    /\ polls < MaxPolls
    /\ \E resp \in Responses(S) :
         LET fetched == GetPlayerSummary(resp)
             sent == now + Throttle(now, last_request_time)
             r == PollResult(profile, fetched, now')
         IN  /\ outcome' = resp.o
             /\ current_data' = fetched
             /\ last_request_time' = sent
             /\ now' = sent + RequestWait(resp)
             /\ profile' = r.p
             /\ emitted' = RequestLines(resp) \o r.ev
             /\ json_log' = WriteAll(json_log, r.ev, now')
    /\ http_requests' = <<PlayerSummaries>>
    /\ cycle_start' = now
    /\ previous' = profile
    /\ polls' = polls + 1
    /\ pc' = "sleep"
    /\ UNCHANGED <<running, discord_webhook, interrupted, pending, logged>>

\* SleepDuration as the remainder of the interval after the cycle
SleepDuration_Remaining(elapsed) ==
    IF CheckInterval - elapsed > 0 THEN CheckInterval - elapsed ELSE 0

\* line 242: the seconds slept after a cycle that took elapsed seconds
SleepDuration(elapsed) == CheckInterval

\* time.sleep(self.config.check_interval), then the next iteration
Sleep ==
    /\ pc = "sleep"
    /\ now' = now + SleepDuration(now - cycle_start)
    /\ pc' = "poll"
    /\ emitted' = << >>
    /\ http_requests' = << >>
    /\ previous' = profile
    /\ UNCHANGED <<profile, running, current_data, outcome, polls, discord_webhook,
                   last_request_time, cycle_start, interrupted, pending, json_log,
                   logged>>

\* KeyboardInterrupt while the loop sleeps: stop_monitoring
KeyboardInterrupt ==
    /\ pc = "sleep"
    /\ running' = FALSE
    /\ interrupted' = TRUE
    /\ emitted' = <<MonitorStoppedLine>>
    /\ json_log' = WriteAll(json_log, emitted', now)
    /\ http_requests' = << >>
    /\ previous' = profile
    /\ pc' = "stopped"
    /\ UNCHANGED <<profile, now, current_data, outcome, polls, discord_webhook,
                   last_request_time, cycle_start, pending, logged>>

----------------------------------------------------------------------------
(* _check_for_changes statement by statement.  A KeyboardInterrupt is      *)
(* raised between two statements of the main thread; what the call has     *)
(* left to do is a sequence of effects: a Logger.log call or an assignment *)
(* to a profile attribute.                                                 *)

\* the attribute order with game_name assigned before game_start_time
StoreAttrs_NameFirst ==
    <<"persona_state", "game_name", "game_start_time", "personaname", "realname",
      "country", "profile_url", "avatar">>

\* the profile attributes in the order the call assigns them: lines 270, 289,
\* 291, 319, 321, 323, 325, 327
StoreAttrs ==
    <<"persona_state", "game_start_time", "game_name", "personaname", "realname",
      "country", "profile_url", "avatar">>

LogEffect(line) == [kind |-> "log", line |-> line]
StoreEffect(attr, value) == [kind |-> "store", attr |-> attr, value |-> value]

\* the effects of one rule that takes c to d: its log call, then its assignments
RuleEffects(c, d) ==
    LET lines  == SubSeq(d.ev, Len(c.ev) + 1, Len(d.ev))
        stored == SelectSeq(StoreAttrs, LAMBDA a : d.p[a] # c.p[a])
    IN  [i \in 1..Len(lines) |-> LogEffect(lines[i])]
            \o [i \in 1..Len(stored) |-> StoreEffect(stored[i], d.p[stored[i]])]

\* the effects of the loop of lines 306-327 from field i on
RECURSIVE FieldEffects(_, _, _, _)
FieldEffects(c, old, data, i) ==
    IF i > Len(Changes) THEN << >>
    ELSE LET d == CheckField(c, old, data, i)
         IN  RuleEffects(c, d) \o FieldEffects(d, old, data, i + 1)

\* the effects of lines 258-294 in order
CallEffects(p, data, current_time) ==
    LET c0 == [p |-> p, ev |-> << >>]
        c1 == CheckStatus(c0, data)
        c2 == CheckGame(c1, data, current_time)
    IN  RuleEffects(c0, c1) \o RuleEffects(c1, c2) \o FieldEffects(c2, c2.p, data, 1)

\* _check_for_changes up to line 258: the fetch and the early return
BeginCheck(S) ==
    /\ pc = "poll"
    /\ running
    /\ polls < MaxPolls
    /\ \E resp \in Responses(S) :
         LET fetched == GetPlayerSummary(resp)
             sent == now + Throttle(now, last_request_time)
         IN  /\ outcome' = resp.o
             /\ current_data' = fetched
             /\ last_request_time' = sent
             /\ now' = sent + RequestWait(resp)
             /\ emitted' = RequestLines(resp)
             /\ pending' = IF fetched = NoData THEN << >>
                           ELSE CallEffects(profile, fetched, now')
    /\ pc' = IF pending' = << >> THEN "sleep" ELSE "check"
    /\ http_requests' = <<PlayerSummaries>>
    /\ cycle_start' = now
    /\ previous' = profile
    /\ polls' = polls + 1
    /\ UNCHANGED <<profile, running, discord_webhook, interrupted, json_log, logged>>

\* the next statement of the running call
EffectStep ==
    /\ pc = "check"
    /\ LET ef == Head(pending)
       IN  IF ef.kind = "log"
           THEN /\ emitted' = Append(emitted, ef.line)
                /\ json_log' = Log(json_log, ef.line, now, "ok")
                /\ profile' = profile
           ELSE /\ profile' = [profile EXCEPT ![ef.attr] = ef.value]
                /\ UNCHANGED <<emitted, json_log>>
    /\ pending' = Tail(pending)
    /\ pc' = IF pending' = << >> THEN "sleep" ELSE "check"
    /\ UNCHANGED <<running, now, previous, current_data, outcome, polls,
                   discord_webhook, http_requests, last_request_time, cycle_start,
                   interrupted, logged>>

\* KeyboardInterrupt during the fetch or between two statements of the call:
\* it leaves _check_for_changes and start_monitoring calls stop_monitoring
InterruptCycle ==
    /\ pc \in {"poll", "check"}
    /\ running
    /\ running' = FALSE
    /\ interrupted' = TRUE
    /\ pending' = << >>
    /\ emitted' = Append(emitted, MonitorStoppedLine)
    /\ json_log' = Log(json_log, MonitorStoppedLine, now, "ok")
    /\ pc' = "stopped"
    /\ UNCHANGED <<profile, now, previous, current_data, outcome, polls,
                   discord_webhook, http_requests, last_request_time, cycle_start,
                   logged>>

\* KeyboardInterrupt while the Logger.log call that is next reads the JSON log
\* back (lines 148-152): the bare except takes it for a failed read, the call
\* goes on with events = [] and the loop never sees the interrupt
InterruptAbsorbed ==
    /\ pc = "check"
    /\ Head(pending).kind = "log"
    /\ interrupted' = TRUE
    /\ emitted' = Append(emitted, Head(pending).line)
    /\ json_log' = Log(json_log, Head(pending).line, now, "raised")
    /\ pending' = Tail(pending)
    /\ pc' = IF pending' = << >> THEN "sleep" ELSE "check"
    /\ UNCHANGED <<profile, running, now, previous, current_data, outcome, polls,
                   discord_webhook, http_requests, last_request_time, cycle_start,
                   logged>>

----------------------------------------------------------------------------
(* Logger.log call by call, with the content of steam_activity.json *)

MaxLogCalls == 3

\* the lengths of the JSON log found at start: none, short, one below the
\* cap, at the cap
OldLengths == {0, 1, JsonCap - 1, JsonCap}

\* a JSON log of n events written by earlier runs
OldLog(n) == [i \in 1..n |-> JsonEvent([kind |-> "old", n |-> i], i - n - 1)]

LogMessages == {MonitorStartedLine("n1"), MonitorStoppedLine}

InitLog == \E n \in OldLengths : Constructed(None, OldLog(n))

LogCalls == Len(SelectSeq(logged, LAMBDA ev : ev.message.kind # "old"))

\* Logger.log(message): read is how the read-back of lines 148-152 ended
LogWith(read) ==
    /\ LogCalls < MaxLogCalls
    /\ \E line \in LogMessages : \E dt \in {0, 1} :
         /\ now' = now + dt
         /\ json_log' = Log(json_log, line, now', read)
         /\ logged' = Append(logged, JsonEvent(line, now'))
         /\ emitted' = Append(emitted, line)
    /\ UNCHANGED <<profile, running, pc, previous, current_data, outcome, polls,
                   discord_webhook, http_requests, last_request_time, cycle_start,
                   pending>>

LogCall == LogWith("ok") /\ UNCHANGED interrupted

\* KeyboardInterrupt while json.load reads the file back (the file always
\* exists: Logger.__init__ touches it)
LogCallInterrupted ==
    /\ LogWith("raised")
    /\ interrupted' = TRUE

----------------------------------------------------------------------------
(* Specifications *)

Setup == SetupUser(Snapshots)
Start == StartMonitoring(StartDelays)
Poll  == CheckForChanges(Snapshots)

Next == Setup \/ Start \/ Poll \/ Sleep \/ KeyboardInterrupt

Spec == Init /\ [][Next]_vars

\* the same program watching an account whose metadata fields each vary
SetupMeta == SetupUser(MetaSnapshots)
StartMeta == StartMonitoring({0})
PollMeta  == CheckForChanges(MetaSnapshots)

NextMeta == SetupMeta \/ StartMeta \/ PollMeta \/ Sleep \/ KeyboardInterrupt

SpecMeta == Init /\ [][NextMeta]_vars

\* the same program started after waits at the boundaries of the rendering
SetupDuration == SetupUser(DurationSnapshots)
StartDuration == StartMonitoring(DurationDelays)
PollDuration  == CheckForChanges(DurationSnapshots)

NextDuration ==
    SetupDuration \/ StartDuration \/ PollDuration \/ Sleep \/ KeyboardInterrupt

SpecDuration == Init /\ [][NextDuration]_vars

\* the same program where a webhook URL was entered at main's prompt
WebhookUrl == "https://discord.com/api/webhooks/1"

InitWebhook == Constructed(WebhookUrl, Untracked)

SpecWebhook == InitWebhook /\ [][Next]_vars

\* the same program polled with summaries that change everything at once
SetupAll == SetupUser(AllSnapshots)
PollAll  == CheckForChanges(AllSnapshots)

NextAll == SetupAll \/ StartMeta \/ PollAll \/ Sleep \/ KeyboardInterrupt

SpecAll == Init /\ [][NextAll]_vars

\* the Logger alone, on a JSON log left by earlier runs
NextLog == LogCall \/ LogCallInterrupted

SpecLog == InitLog /\ [][NextLog]_vars

\* the same program with _check_for_changes run statement by statement
SetupSteps == SetupUser(StepSnapshots)
BeginSteps == BeginCheck(StepSnapshots)

NextSteps ==
    \/ SetupSteps \/ StartMeta \/ BeginSteps \/ EffectStep
    \/ InterruptCycle \/ InterruptAbsorbed \/ Sleep \/ KeyboardInterrupt

SpecSteps == Init /\ [][NextSteps]_vars

----------------------------------------------------------------------------
(* Properties.  They read the state right after a handler returned:        *)
(* previous is the profile the handler started from, current_data what it  *)
(* fetched, emitted what it reported, now the handler's current_time.      *)

AfterPoll == pc = "sleep"
OkPoll == AfterPoll /\ outcome = "ok"
Lines(kind) == SelectSeq(emitted, LAMBDA l : l.kind = kind)
SessionLines == SelectSeq(emitted, LAMBDA l : l.kind \in {"started", "stopped"})
ChangeLines ==
    SelectSeq(emitted, LAMBDA l : l.kind \in {"status", "started", "stopped", "changed"})
FieldLines(display) ==
    SelectSeq(emitted, LAMBDA l : l.kind = "changed" /\ l.field = display)
Polled(key, default) == Get(current_data, key, default)

\* the logical value of a metadata field: empty and absent are one value
Blank(v) == v = "" \/ v = None
Logical(v) == IF Blank(v) THEN None ELSE v
SameValue(a, b) == Logical(a) = Logical(b)
Fields == 1..Len(Changes)
MetadataUnchanged ==
    \A i \in Fields : SameValue(previous[Changes[i][3]], Polled(Changes[i][1], None))

\* C1: after a successful poll, an unchanged presence code gives no status
\* line; a changed one gives exactly one status line whose old text is that of
\* the code stored before the poll and whose new text is that of the polled
\* code; the stored code equals the polled code afterwards.
C1_PresenceChange ==
    OkPoll =>
        LET new_status == Polled("personastate", 0)
            st == Lines("status")
        IN  /\ new_status = previous.persona_state => st = << >>
            /\ new_status # previous.persona_state =>
                   /\ Len(st) = 1
                   /\ st[1].old = StatusText(previous.persona_state)
                   /\ st[1].new = StatusText(new_status)
            /\ profile.persona_state = new_status

C1_Witness ==
    /\ OkPoll
    /\ previous.persona_state = 1
    /\ Polled("personastate", 0) = 0
    /\ Lines("status") = <<StatusLine(previous.personaname, "Online", "Offline")>>
    /\ profile.persona_state = 0

\* a successful poll that finds game B while game A is stored
GameSwitch ==
    /\ OkPoll
    /\ Truthy(previous.game_name)
    /\ Truthy(Polled("gameextrainfo", None))
    /\ Polled("gameextrainfo", None) # previous.game_name

\* C2 as stated: a game-to-game switch logs a stop of A with the elapsed
\* duration, then a start of B, and resets the stored start to now.
C2_EndedThenStarted ==
    GameSwitch =>
        /\ Len(SessionLines) = 2
        /\ SessionLines[1].kind = "stopped"
        /\ SessionLines[1].game = previous.game_name
        /\ previous.game_start_time # NoTime
        /\ SessionLines[1].duration = FormatDuration(now - previous.game_start_time[1])
        /\ SessionLines[2].kind = "started"
        /\ SessionLines[2].game = Polled("gameextrainfo", None)
        /\ profile.game_start_time = At(now)

\* C2 amended: a game-to-game switch logs no stop of A and exactly one start,
\* of B; the stored label becomes B and the stored start is reset to now.
C2_StartedOnly ==
    GameSwitch =>
        /\ SessionLines = <<StartedLine(previous.personaname, Polled("gameextrainfo", None))>>
        /\ profile.game_name = Polled("gameextrainfo", None)
        /\ profile.game_start_time = At(now)

C2_Witness ==
    /\ GameSwitch
    /\ previous.game_name = "A"
    /\ profile.game_name = "B"
    /\ previous.game_start_time # NoTime
    /\ previous.game_start_time # profile.game_start_time

\* the API answered a poll with an empty player list
NotFoundPoll == AfterPoll /\ outcome = "notfound"

\* C3 as stated: a not-found answer logs exactly one unavailable line and
\* forces the stored presence to Offline, all other fields kept.
C3_BecameUnavailable ==
    NotFoundPoll =>
        /\ Len(emitted) = 1
        /\ emitted[1].kind = "unavailable"
        /\ profile = [previous EXCEPT !.persona_state = 0]

\* C3 amended: a not-found answer logs nothing and leaves every stored
\* field, presence included, as it was.
C3_NotFoundIgnored ==
    NotFoundPoll => emitted = << >> /\ profile = previous

C3_Witness ==
    /\ NotFoundPoll
    /\ polls = 2
    /\ profile.persona_state = 1
    /\ Truthy(profile.game_name)

\* the fetch of a poll failed as a whole
FailedPoll == AfterPoll /\ outcome \in Failures

\* C4: a failed fetch logs no change line, leaves the stored profile as it
\* was, and leaves the loop running at its sleep, which is enabled.
C4_FetchFailure ==
    FailedPoll =>
        /\ ChangeLines = << >>
        /\ profile = previous
        /\ running
        /\ ENABLED Sleep

C4_Witness ==
    /\ FailedPoll
    /\ outcome = "ratelimited"
    /\ profile.persona_state = 1
    /\ Truthy(profile.game_name)
    /\ Lines("rate_limited") # << >>

\* a successful poll that finds no game while a game with a start is stored
GameStop ==
    /\ OkPoll
    /\ Truthy(previous.game_name)
    /\ previous.game_start_time # NoTime
    /\ ~Truthy(Polled("gameextrainfo", None))

\* C5: a stop logs exactly one stopped line naming the old label, with the
\* rendering of the non-negative difference now - t0 ("2m" for 125 seconds),
\* no started line, and the stored label is empty afterwards.
C5_SessionEnded ==
    GameStop =>
        LET elapsed == now - previous.game_start_time[1]
        IN  /\ Len(SessionLines) = 1
            /\ SessionLines[1].kind = "stopped"
            /\ SessionLines[1].game = previous.game_name
            /\ elapsed >= 0
            /\ SessionLines[1].duration = FormatDuration(elapsed)
            /\ elapsed = 125 => SessionLines[1].duration = "2m"
            /\ ~Truthy(profile.game_name)

C5_Witness ==
    /\ GameStop
    /\ now - previous.game_start_time[1] = 125
    /\ Polled("gameextrainfo", None) = ""
    /\ SessionLines = <<StoppedLine(previous.personaname, previous.game_name, "2m")>>

\* a successful poll that finds a game while none is stored, nothing else changed
GameStart ==
    /\ OkPoll
    /\ ~Truthy(previous.game_name)
    /\ Truthy(Polled("gameextrainfo", None))
    /\ Polled("personastate", 0) = previous.persona_state
    /\ MetadataUnchanged

\* C6: such a poll logs exactly one line, the start of that label, and
\* records now as the session start.
C6_SessionStarted ==
    GameStart =>
        /\ emitted = <<StartedLine(previous.personaname, Polled("gameextrainfo", None))>>
        /\ profile.game_name = Polled("gameextrainfo", None)
        /\ profile.game_start_time = At(now)

C6_Witness ==
    /\ GameStart
    /\ previous.game_start_time # NoTime
    /\ previous.game_start_time # At(now)
    /\ profile.game_name = "A"

\* C7: a successful poll that returns the summary the previous successful
\* fetch (setup_user or a poll) returned logs nothing and changes nothing.
C7_Idempotent ==
    [][(/\ pc = "poll" /\ pc' = "sleep"
        /\ outcome = "ok" /\ outcome' = "ok"
        /\ current_data' = current_data)
       => (emitted' = << >> /\ profile' = profile)]_vars

\* C8: each metadata field whose logical value differs between the stored
\* profile and the summary gets exactly one changed line with its old and
\* new values and is stored with the new value; every other field gets no
\* line and keeps its stored value.
C8_FieldsIndependent ==
    OkPoll =>
        \A i \in Fields :
            LET old == previous[Changes[i][3]]
                new == Polled(Changes[i][1], None)
                fl  == FieldLines(Changes[i][2])
            IN  IF SameValue(old, new)
                THEN fl = << >> /\ profile[Changes[i][3]] = old
                ELSE /\ Len(fl) = 1
                     /\ fl[1].old = Logical(old)
                     /\ fl[1].new = Logical(new)
                     /\ profile[Changes[i][3]] = Logical(new)

C8_Witness ==
    /\ OkPoll
    /\ {l.field : l \in {emitted[j] : j \in 1..Len(emitted)}}
           = {"real name", "country", "avatar"}
    /\ Len(emitted) = 3
    /\ previous.personaname = profile.personaname
    /\ previous.profile_url = profile.profile_url

\* C9: a field whose stored value and polled value are both empty or absent
\* gets no changed line.
C9_EmptyIsAbsent ==
    OkPoll =>
        \A i \in Fields :
            (Blank(previous[Changes[i][3]]) /\ Blank(Polled(Changes[i][1], None)))
                => FieldLines(Changes[i][2]) = << >>

C9_Witness ==
    /\ OkPoll
    /\ previous.personaname = None /\ Polled("personaname", None) = ""
    /\ previous.realname = "" /\ "realname" \notin DOMAIN current_data
    /\ previous.country = "" /\ Polled("loccountrycode", None) = ""
    /\ previous.avatar = None /\ "avatarfull" \notin DOMAIN current_data
    /\ Lines("changed") = << >>

\* setup_user returned True
AfterSetup == pc = "ready"

\* C10: the first successful summary builds the stored profile from that
\* summary and reports exactly one line, the initial status; no status,
\* session or metadata line, whatever presence and activity it carries.
C10_InitializedOnly ==
    AfterSetup =>
        /\ previous = NoProfile
        /\ profile.personaname = Polled("personaname", "Unknown")
        /\ profile.realname = Polled("realname", None)
        /\ profile.country = Polled("loccountrycode", None)
        /\ profile.avatar = Polled("avatarfull", None)
        /\ profile.profile_url = Polled("profileurl", None)
        /\ profile.persona_state = Polled("personastate", 0)
        /\ profile.game_name = Polled("gameextrainfo", None)
        /\ Len(emitted) = 1
        /\ emitted[1].kind = "initialized"
        /\ ChangeLines = << >>

C10_Witness ==
    /\ AfterSetup
    /\ profile.persona_state = 7
    /\ profile.game_name = "A"
    /\ emitted = <<InitializedLine(profile.personaname, "Unknown", "A")>>

\* the rendering C11 states: hours and minutes from one hour on, minutes
\* from one minute on, seconds below one minute
RenderingAsStated(d) ==
    IF d >= 3600 THEN ToString(d \div 3600) \o "h " \o ToString((d % 3600) \div 60) \o "m"
    ELSE IF d >= 60 THEN ToString(d \div 60) \o "m"
    ELSE ToString(d) \o "s"

\* the same, with the minutes left out of a whole number of hours
RenderingAmended(d) ==
    IF d >= 3600 /\ (d % 3600) \div 60 = 0 THEN ToString(d \div 3600) \o "h"
    ELSE RenderingAsStated(d)

\* C11 as stated: a session of d whole seconds is reported as "{h}h {m}m"
\* from 60 minutes on, "{m}m" from one minute on, "{s}s" below one minute.
C11_Rendering ==
    GameStop =>
        SessionLines[1].duration = RenderingAsStated(now - previous.game_start_time[1])

\* C11 amended: as stated, except that from 60 minutes on the minutes are
\* shown only when they are not zero ("1h" for 3600 s, "1h 1m" for 3661 s);
\* at most two units appear.
C11_RenderingAmended ==
    GameStop =>
        SessionLines[1].duration = RenderingAmended(now - previous.game_start_time[1])

C11_Witness ==
    /\ GameStop
    /\ now - previous.game_start_time[1] = 3661
    /\ SessionLines[1].duration = "1h 1m"

\* the loop leaves its sleep for the next iteration
SleepStep == pc = "sleep" /\ pc' = "poll"

\* C18 as stated: the loop sleeps for max(0, interval - time elapsed since
\* the cycle started).
C18_SleepsRemainder ==
    [][SleepStep =>
         now' - now = (IF CheckInterval - (now - cycle_start) > 0
                       THEN CheckInterval - (now - cycle_start) ELSE 0)]_vars

\* C18 amended: the loop sleeps for the full interval whatever the cycle took.
C18_SleepsInterval ==
    [][SleepStep =>
         now' - now = CheckInterval]_vars

C18_Witness ==
    /\ pc = "poll"
    /\ polls > 0
    /\ outcome = "ratelimited"
    /\ now - cycle_start = RateLimitWait + CheckInterval

\* the requests the most recent step sent to the configured webhook
WebhookPosts == SelectSeq(http_requests, LAMBDA u : u = discord_webhook)

\* C12: with a webhook configured, a successful poll sends one request to
\* the webhook for each change line it logs.
C12_WebhookDelivery ==
    (OkPoll /\ discord_webhook # None) => Len(WebhookPosts) = Len(ChangeLines)

\* the profile the cycle that was running would have left
PostCycle == PollResult(previous, current_data, now).p

Stopped == pc = "stopped"

\* C13 as stated: in the Stopped state the stored profile is entirely the
\* pre-cycle state or entirely the post-cycle state of the last snapshot.
C13_CycleAtomic ==
    Stopped => (profile = previous \/ profile = PostCycle)

\* the attributes in the order of the rules: presence, session, metadata
RuleOrder ==
    <<"persona_state", "game_start_time", "game_name", "personaname", "realname",
      "country", "profile_url", "avatar">>

\* C13 amended: the stop takes effect where it arrives, also in the middle of
\* a cycle; in the Stopped state the stored profile is the pre-cycle state
\* with the cycle's assignments applied in rule order up to some point.
C13_CyclePrefix ==
    Stopped =>
        \E k \in 0..Len(RuleOrder) :
            \A j \in 1..Len(RuleOrder) :
                profile[RuleOrder[j]] =
                    IF j <= k THEN PostCycle[RuleOrder[j]] ELSE previous[RuleOrder[j]]

C13_Witness ==
    /\ Stopped
    /\ interrupted
    /\ profile.persona_state = PostCycle.persona_state
    /\ profile.persona_state # previous.persona_state
    /\ profile.game_start_time = PostCycle.game_start_time
    /\ profile.game_start_time # previous.game_start_time
    /\ profile.game_name = previous.game_name
    /\ PostCycle.game_name = "A"
    /\ profile.personaname = previous.personaname
    /\ PostCycle.personaname # previous.personaname

\* C14: once a KeyboardInterrupt was delivered to the running loop, the
\* monitor is stopped: running is False and no further fetch starts.
C14_StopHonoured ==
    interrupted => (Stopped /\ ~running)

Unmapped(code) == code \notin DOMAIN STATUS_TEXT

\* C15: a poll whose raw code is unmapped while the stored raw code is
\* unmapped too is presence Unknown before and after: it emits no status line.
C15_UnmappedIsOneValue ==
    (OkPoll /\ Unmapped(previous.persona_state) /\ Unmapped(Polled("personastate", 0)))
        => Lines("status") = << >>

HasProfile == profile # NoProfile

\* C17 as stated: an empty game_name never coexists with a set game_start_time.
C17_StartCleared ==
    (HasProfile /\ ~Truthy(profile.game_name)) => profile.game_start_time = NoTime

\* C17 amended: no cycle clears the start timestamp.  A poll that follows a
\* recorded start leaves a start recorded, and the poll in which the label
\* becomes empty leaves the ended session's start in place.
C17_StartKept ==
    (AfterPoll /\ previous.game_start_time # NoTime) =>
        /\ profile.game_start_time # NoTime
        /\ (OkPoll /\ ~Truthy(Polled("gameextrainfo", None)))
               => profile.game_start_time = previous.game_start_time

C17_Witness ==
    /\ OkPoll
    /\ previous.game_name = "A"
    /\ Lines("stopped") # << >>
    /\ ~Truthy(profile.game_name)
    /\ profile.game_start_time # NoTime

\* C19: a non-empty stored label always has a recorded start, and no stopped
\* line reports the duration "Unknown".
C19_StartRecorded ==
    /\ (HasProfile /\ Truthy(profile.game_name)) => profile.game_start_time # NoTime
    /\ \A i \in 1..Len(emitted) :
           emitted[i].kind = "stopped" => emitted[i].duration # "Unknown"

\* the session that was running at the first snapshot ends at the first poll
C19_Witness ==
    /\ OkPoll
    /\ polls = 1
    /\ Truthy(previous.game_name)
    /\ Len(Lines("stopped")) = 1
    /\ Lines("stopped")[1].duration \in {"20s", "2m"}

\* the metadata fields by display name, in the order of the rules
DisplayOrder == <<"nickname", "real name", "country", "profile URL", "avatar">>

\* the place of a line in the rule order: presence, session, then each field
Rank(line) ==
    CASE line.kind = "status" -> 1
      [] line.kind \in {"started", "stopped"} -> 2
      [] line.kind = "changed" ->
             2 + (CHOOSE i \in 1..Len(DisplayOrder) : DisplayOrder[i] = line.field)

\* the ranks of the differences between the stored profile and the summary
ExpectedRanks ==
    (IF Polled("personastate", 0) # previous.persona_state THEN {1} ELSE {})
        \cup (IF Logical(Polled("gameextrainfo", None)) # Logical(previous.game_name)
              THEN {2} ELSE {})
        \cup {2 + i : i \in {j \in Fields :
                  ~SameValue(previous[Changes[j][3]], Polled(Changes[j][1], None))}}

\* C16: the lines of a successful poll are in rule order (presence, session,
\* nickname, real name, country, profile URL, avatar), one line for each
\* difference between the stored profile and the summary, none missing.
C16_RuleOrder ==
    OkPoll =>
        LET n == Len(ChangeLines)
        IN  /\ \A i \in 1..n : \A j \in 1..n :
                   i < j => Rank(ChangeLines[i]) < Rank(ChangeLines[j])
            /\ {Rank(ChangeLines[i]) : i \in 1..n} = ExpectedRanks

C16_Witness ==
    /\ OkPoll
    /\ Len(ChangeLines) = 7
    /\ ChangeLines[1].kind = "status"
    /\ ChangeLines[2].kind = "started"
    /\ ChangeLines[7].field = "avatar"

\* the last n elements of a sequence
LastOf(seq, n) == IF Len(seq) > n THEN SubSeq(seq, Len(seq) - n + 1, Len(seq)) ELSE seq

\* C20: the JSON log holds at most 500 events and they are exactly the most
\* recent events handed to Logger.log, oldest first.
C20_MostRecentEvents ==
    json_log # Untracked =>
        /\ Len(json_log) <= JsonCap
        /\ json_log = LastOf(logged, JsonCap)

====
